---- MODULE Spec2Model ----
(***************************************************************************)
(* Site archiver of dev-docs-marketplace-cake-snapshot: the breadth-first  *)
(* crawler (crawl.py, both fetch strategies) and the aggregator            *)
(* (aggregate_md.py); and the benchmark regression detector               *)
(* (tools/performance-regression-detector.py).                             *)
(*                                                                         *)
(* Strings that the code takes apart are sequences of tokens: single       *)
(* characters, and words no URL of the model splits.  Where two URLs of    *)
(* the model first differ, neither token is a prefix of the other, so two  *)
(* token sequences are equal exactly when the strings they spell are, and  *)
(* the lexicographic order by TokenRank is Python's str order.             *)
(* A URL string is kept in the form urlsplit gives it: a record of scheme, *)
(* netloc, path, query and fragment.                                       *)
(***************************************************************************)
EXTENDS Integers, Sequences, FiniteSets, TLC

VARIABLES pc, strategy, queue, seen, visited, url_to_file, used_names,
          html_files, urls_txt, url_map_json, agg_md, exit_code,
          crawl_log, site, requested, enqueued, last, runs, faults,
          baseline_json, current_results, regressions, exit_status,
          report_md, prev_run

\* the files and the latest run of the regression detector
detector_vars == <<baseline_json, current_results, regressions, exit_status,
                   report_md, prev_run>>

vars == <<pc, strategy, queue, seen, visited, url_to_file, used_names,
          html_files, urls_txt, url_map_json, agg_md, exit_code,
          crawl_log, site, requested, enqueued, last, runs, faults,
          baseline_json, current_results, regressions, exit_status,
          report_md, prev_run>>

----------------------------------------------------------------------------
(* Generic helpers *)

Range(s) == {s[i] : i \in 1..Len(s)}

NoDup(s) == \A i, j \in 1..Len(s) : i # j => s[i] # s[j]

Last(s) == s[Len(s)]

Front(s) == SubSeq(s, 1, Len(s) - 1)

Take(s, n) == SubSeq(s, 1, IF n < Len(s) THEN n ELSE Len(s))

EndsWith(s, t) ==
    /\ Len(t) <= Len(s)
    /\ SubSeq(s, Len(s) - Len(t) + 1, Len(s)) = t

----------------------------------------------------------------------------
(* Characters and tokens *)

\* the tokens the model spells strings with, in code-point order of the
\* strings they stand for
TokenOrder ==
    <<"#", ".CSS", ".css", ".html", "/", "0", "1", "2", "3", "4", "5", "6",
      "7", "8", "9", ":", "://", "=", "?", "_", "a", "build", "clockify",
      "dev-docs.marketplace.cake.com", "html", "https", "index", "learn",
      "mailto", "other.test", "publish", "section2", "style", "x">>

TokenRank(t) == CHOOSE i \in 1..Len(TokenOrder) : TokenOrder[i] = t

\* [A-Za-z0-9] of the query-slug pattern
IsAlnum(t) ==
    t \in {"0", "1", "2", "3", "4", "5", "6", "7", "8", "9", "a", "x", "build",
           "clockify", "learn", "publish", "style", "html", "index",
           "section2"}

\* str.lower() on a token
Lower(t) == IF t = ".CSS" THEN ".css" ELSE t

LowerSeq(s) == [i \in 1..Len(s) |-> Lower(s[i])]

\* str(i) for i >= 0, as decimal digit characters
DigitChar(d) ==
    CASE d = 0 -> "0" [] d = 1 -> "1" [] d = 2 -> "2" [] d = 3 -> "3"
      [] d = 4 -> "4" [] d = 5 -> "5" [] d = 6 -> "6" [] d = 7 -> "7"
      [] d = 8 -> "8" [] d = 9 -> "9"

RECURSIVE IntToStr(_)
IntToStr(i) ==
    IF i < 10 THEN <<DigitChar(i)>>
    ELSE IntToStr(i \div 10) \o <<DigitChar(i % 10)>>

RECURSIVE LexLess(_, _)
LexLess(s, t) ==
    IF t = <<>> THEN FALSE
    ELSE IF s = <<>> THEN TRUE
    ELSE IF Head(s) = Head(t) THEN LexLess(Tail(s), Tail(t))
    ELSE TokenRank(Head(s)) < TokenRank(Head(t))

----------------------------------------------------------------------------
(* URLs *)

Url(sc, h, p, q, f) ==
    [scheme |-> sc, netloc |-> h, path |-> p, query |-> q, fragment |-> f]

\* urlunsplit: the string a split URL spells
urlunsplit(u) ==
    (IF u.scheme = "" THEN <<>>
     ELSE IF u.netloc = "" THEN <<u.scheme, ":">>
     ELSE <<u.scheme, "://", u.netloc>>)
    \o u.path
    \o (IF u.query = <<>> THEN <<>> ELSE <<"?">> \o u.query)
    \o (IF u.fragment = "" THEN <<>> ELSE <<"#", u.fragment>>)

UrlLess(u, v) ==
    \E a \in {urlunsplit(u)}, b \in {urlunsplit(v)} : LexLess(a, b)

strip_fragment(u) == Url(u.scheme, u.netloc, u.path, u.query, "")

\* index of the last "/" of a path, 0 when it has none
RECURSIVE LastSlash(_)
LastSlash(p) ==
    IF p = <<>> THEN 0
    ELSE IF Last(p) = "/" THEN Len(p)
    ELSE LastSlash(Front(p))

\* urljoin for references without dot segments
urljoin(base, href) ==
    IF href = Url("", "", <<>>, <<>>, "") THEN base
    ELSE IF href.scheme # "" /\ href.scheme # base.scheme THEN href
    ELSE IF href.netloc # "" THEN
        Url(base.scheme, href.netloc, href.path, href.query, href.fragment)
    ELSE IF href.path = <<>> THEN
        Url(base.scheme, base.netloc, base.path,
            IF href.query = <<>> THEN base.query ELSE href.query,
            href.fragment)
    ELSE IF Head(href.path) = "/" THEN
        Url(base.scheme, base.netloc, href.path, href.query, href.fragment)
    ELSE
        Url(base.scheme, base.netloc,
            SubSeq(base.path, 1, LastSlash(base.path)) \o href.path,
            href.query, href.fragment)

----------------------------------------------------------------------------
(* Configuration of crawl.py *)

ALLOWED_HOST == "dev-docs.marketplace.cake.com"

ROOT_URL == Url("https", ALLOWED_HOST, <<"/">>, <<>>, "")

EXTRA_SEEDS ==
    << Url("", "", <<"/", "clockify", "/", "learn", "/">>, <<>>, ""),
       Url("", "", <<"/", "clockify", "/", "build", "/">>, <<>>, ""),
       Url("", "", <<"/", "clockify", "/", "publish", "/">>, <<>>, "") >>

BLOCKED_EXTENSIONS ==
    {".png", ".jpg", ".jpeg", ".gif", ".svg", ".ico", ".pdf",
     ".zip", ".tar", ".gz", ".tgz", ".css", ".js", ".woff",
     ".woff2", ".ttf", ".eot", ".map"}

\* the [:120] cut of the query slug
QSLUG_MAX == 120

----------------------------------------------------------------------------
(* Pure helpers of crawl.py *)

is_html_response(resp) == resp.status = 200 /\ resp.html

\* variant: the path is not lower-cased before the comparison
has_blocked_extension_CaseSensitive(path) ==
    \E ext \in BLOCKED_EXTENSIONS : EndsWith(path, <<ext>>)

has_blocked_extension(path) ==
    \E ext \in BLOCKED_EXTENSIONS : EndsWith(LowerSeq(path), <<ext>>)

\* str.strip(c)
RECURSIVE LStrip(_, _)
LStrip(s, c) ==
    IF s # <<>> /\ Head(s) = c THEN LStrip(Tail(s), c) ELSE s

RECURSIVE RStrip(_, _)
RStrip(s, c) ==
    IF s # <<>> /\ Last(s) = c THEN RStrip(Front(s), c) ELSE s

Strip(s, c) == RStrip(LStrip(s, c), c)

\* str.replace(a, b) for single characters
Replace(s, a, b) == [i \in 1..Len(s) |-> IF s[i] = a THEN b ELSE s[i]]

\* re.sub(r"[^A-Za-z0-9]+", "_", q): every maximal run of other characters
\* becomes one "_"
RECURSIVE QSub(_)
QSub(q) ==
    IF q = <<>> THEN <<>>
    ELSE IF IsAlnum(Head(q)) THEN <<Head(q)>> \o QSub(Tail(q))
    ELSE IF Len(q) > 1 /\ ~IsAlnum(q[2]) THEN QSub(Tail(q))
    ELSE <<"_">> \o QSub(Tail(q))

Slug(url) ==
    LET path == url.path
        base == IF path = <<>> \/ path = <<"/">> THEN <<"index">>
                ELSE LET s == Replace(Strip(path, "/"), "/", "_")
                     IN  IF s = <<>> THEN <<"index">> ELSE s
        qslug == Strip(Take(QSub(url.query), QSLUG_MAX), "_")
    IN  IF url.query # <<>> /\ qslug # <<>> THEN base \o <<"_">> \o qslug
        ELSE base

\* variant: the suffix is tried once, not until it is free
NextFree_Once(slug, i, used_names_) ==
    slug \o <<"_">> \o IntToStr(i) \o <<".html">>

\* the "ensure uniqueness" loop, entered with candidate slug_i.html
RECURSIVE NextFree(_, _, _)
NextFree(slug, i, used_names_) ==
    LET fname == slug \o <<"_">> \o IntToStr(i) \o <<".html">>
    IN  IF fname \in used_names_ THEN NextFree(slug, i + 1, used_names_)
        ELSE fname

\* the name make_filename_for_url returns; the caller adds it to used_names
make_filename_for_url(url, used_names_) ==
    LET slug == Slug(url)
        fname == slug \o <<".html">>
    IN  IF fname \in used_names_ THEN NextFree(slug, 2, used_names_)
        ELSE fname

\* os.path.relpath(os.path.join(HTML_DIR, fname), OUT_DIR)
RelPath(fname) == <<"html", "/">> \o fname

\* sorted(): insertion into an ascending sequence, by URL string ("rest" in
\* SortUrls names the sorted front, computed once)
RECURSIVE InsertSorted(_, _)
InsertSorted(u, s) ==
    IF s = <<>> THEN <<u>>
    ELSE IF UrlLess(u, Head(s)) THEN <<u>> \o s
    ELSE <<Head(s)>> \o InsertSorted(u, Tail(s))

\* variant: the visited list is written in the order of the visits
SortUrls_AsVisited(s) == s

RECURSIVE SortUrls(_)
SortUrls(s) ==
    IF s = <<>> THEN <<>>
    ELSE CHOOSE out \in {InsertSorted(Last(s), rest) :
                            rest \in {SortUrls(Front(s))}} : TRUE

----------------------------------------------------------------------------
(* The site the crawler is pointed at *)

NoUrl == Url("", "", <<>>, <<>>, "")

InScope(p, q) == Url("https", ALLOWED_HOST, p, q, "")

uRoot == InScope(<<"/">>, <<>>)
uLearn == InScope(<<"/", "clockify", "/", "learn", "/">>, <<>>)
uBuild == InScope(<<"/", "clockify", "/", "build", "/">>, <<>>)
uPublish == InScope(<<"/", "clockify", "/", "publish", "/">>, <<>>)
uAA == InScope(<<"/", "a", "/", "a">>, <<>>)
uA_A == InScope(<<"/", "a", "_", "a">>, <<>>)
uAQ == InScope(<<"/", "a">>, <<"a">>)
uA_A_2 == InScope(<<"/", "a", "_", "a", "_", "2">>, <<>>)
uOther == Url("https", "other.test", <<"/", "x">>, <<>>, "")

\* href attributes as written in a page
Ref(p, q, f) == Url("", "", p, q, f)

hAA == Ref(<<"/", "a", "/", "a">>, <<>>, "")
hAAfrag == Ref(<<"/", "a", "/", "a">>, <<>>, "section2")
hA_A == Ref(<<"/", "a", "_", "a">>, <<>>, "")
hAQ == Ref(<<"/", "a">>, <<"a">>, "")
hRel == Ref(<<"a", "_", "a", "_", "2">>, <<>>, "")
hCss == Ref(<<"/", "style", ".css">>, <<>>, "")
hCSS == Ref(<<"/", "style", ".CSS">>, <<>>, "")
hLearn == Ref(<<"/", "clockify", "/", "learn", "/">>, <<>>, "")
hEmpty == Ref(<<>>, <<>>, "")
hFrag == Ref(<<>>, <<>>, "section2")
hMail == Url("mailto", "", <<"x">>, <<>>, "")

\* what one request can come back with: a transport failure, or a response
\* with its final URL, status, content type, body and anchors
Failure == [kind |-> "error", url |-> NoUrl, status |-> 0, html |-> FALSE,
            body |-> "", links |-> <<>>]

Response(u, st, h, b, l) ==
    [kind |-> "ok", url |-> u, status |-> st, html |-> h, body |-> b,
     links |-> l]

\* the responses the server may give for a URL; a site fixes one of them
\* per URL for good
Serve(u) ==
    CASE u = uRoot ->
           { Response(uRoot, 200, TRUE, "root",
                      <<hAA, hAAfrag, hCss, uOther>>),
             Response(uRoot, 200, TRUE, "root",
                      <<hRel, hAQ, hMail, hCSS>>) }
      [] u = uLearn ->
           { Failure,
             Response(uOther, 200, TRUE, "other", <<hA_A>>),
             Response(uLearn, 200, TRUE, "learn", <<hA_A, hAA>>) }
      [] u = uBuild ->
           { Response(uBuild, 404, TRUE, "missing", <<hAQ>>),
             Response(uBuild, 200, FALSE, "text", <<hAQ>>),
             Response([uAA EXCEPT !.fragment = "section2"], 200, TRUE,
                      "moved", <<hEmpty, hLearn>>) }
      [] u = uPublish ->
           { Failure,
             Response(uRoot, 200, TRUE, "publish", <<hFrag, hLearn>>),
             Response(uPublish, 200, TRUE, "publish", <<hAA, hA_A>>) }
      [] u = uAA ->
           { Failure,
             Response(uAA, 200, TRUE, "aa", <<hA_A, hLearn>>) }
      [] u = uA_A ->
           { Response(uA_A, 200, TRUE, "a_a", <<hAA, hAQ>>),
             Response(uAA, 200, TRUE, "a_a", <<hEmpty>>) }
      [] u = uAQ ->
           { Response(uAQ, 200, TRUE, "aq", <<hA_A>>) }
      [] OTHER ->
           { Response(u, 200, TRUE, "page", <<>>) }

----------------------------------------------------------------------------
(* Bounds *)

\* local failures (disk writes, page reads, page closes) per history
MaxFaults == 1

\* invocations of the crawler per history, where reruns are considered
MaxRuns == 2

\* a file of the output directory: absent, or present with its content
NoFile == [exists |-> FALSE, data |-> <<>>]

File(d) == [exists |-> TRUE, data |-> d]

----------------------------------------------------------------------------
(* State of one crawl run *)

\* variant: the "not in url_to_file" test always passes
HasRecord_Never(m, u) == FALSE

\* final_url in url_to_file
HasRecord(m, u) == \E i \in 1..Len(m) : m[i].url = u

Keys(m) == [i \in 1..Len(m) |-> m[i].url]

FileOf(m, u) == m[CHOOSE i \in 1..Len(m) : m[i].url = u].file

LogEntry(level, event, u) == [level |-> level, event |-> event, url |-> u]

IsEmptyStr(h) == urlunsplit(h) = <<>>

\* seeds = [ROOT_URL] + [urljoin(ROOT_URL, p) for p in EXTRA_SEEDS], each
\* stripped of its fragment, kept when on the allowed host
SeedFrontier(root, extra) ==
    LET seeds == <<root>> \o [i \in 1..Len(extra) |-> urljoin(root, extra[i])]
        stripped == [i \in 1..Len(seeds) |-> strip_fragment(seeds[i])]
    IN  SelectSeq(stripped, LAMBDA u : u.netloc = ALLOWED_HOST)

\* variant: no final URL is out of scope
OutOfScope_Never(final_url) == FALSE

\* the host test on the final URL of a fetch
OutOfScope(final_url) == final_url.netloc # ALLOWED_HOST

\* the three filters of the discovery loop
Eligible(abs_url) ==
    /\ abs_url.scheme \in {"http", "https"}
    /\ abs_url.netloc = ALLOWED_HOST
    /\ ~has_blocked_extension(abs_url.path)

\* variant: queues a new URL without marking it seen
RECURSIVE Enqueue_Unmarked(_, _)
Enqueue_Unmarked(abs_urls, fr) ==
    IF abs_urls = <<>> THEN fr
    ELSE LET abs_url == Head(abs_urls)
             after == IF Eligible(abs_url) /\ abs_url \notin fr.seen
                      THEN [seen |-> fr.seen,
                            queue |-> Append(fr.queue, abs_url),
                            added |-> Append(fr.added, abs_url)]
                      ELSE fr
         IN  CHOOSE out \in {Enqueue_Unmarked(Tail(abs_urls), st) : st \in {after}} : TRUE

\* variant: marks a new URL seen without queueing it
RECURSIVE Enqueue_MarkOnly(_, _)
Enqueue_MarkOnly(abs_urls, fr) ==
    IF abs_urls = <<>> THEN fr
    ELSE LET abs_url == Head(abs_urls)
             after == IF Eligible(abs_url) /\ abs_url \notin fr.seen
                      THEN [seen |-> fr.seen \cup {abs_url},
                            queue |-> fr.queue,
                            added |-> fr.added]
                      ELSE fr
         IN  CHOOSE out \in {Enqueue_MarkOnly(Tail(abs_urls), st) : st \in {after}} : TRUE

\* the discovery loop over the resolved anchors, in page order; "after" is
\* the frontier after one anchor, fixed before the loop goes on
RECURSIVE Enqueue(_, _)
Enqueue(abs_urls, fr) ==
    IF abs_urls = <<>> THEN fr
    ELSE LET abs_url == Head(abs_urls)
             after == IF Eligible(abs_url) /\ abs_url \notin fr.seen
                      THEN [seen |-> fr.seen \cup {abs_url},
                            queue |-> Append(fr.queue, abs_url),
                            added |-> Append(fr.added, abs_url)]
                      ELSE fr
         IN  CHOOSE out \in {Enqueue(Tail(abs_urls), st) : st \in {after}} : TRUE

\* crawl_with_requests: absolutize_links rewrites every href, then the loop
\* skips empty ones and strips the fragment again
RequestsAnchors(final_url, links) ==
    LET absolutized == [i \in 1..Len(links) |->
                          strip_fragment(urljoin(final_url, links[i]))]
        kept == SelectSeq(absolutized, LAMBDA h : ~IsEmptyStr(h))
    IN  [i \in 1..Len(kept) |-> strip_fragment(kept[i])]

\* crawl_with_playwright: the loop skips empty hrefs, then resolves
PlaywrightAnchors(final_url, anchors) ==
    LET kept == SelectSeq(anchors, LAMBDA h : ~IsEmptyStr(h))
    IN  [i \in 1..Len(kept) |-> strip_fragment(urljoin(final_url, kept[i]))]

\* "last" records the latest iteration: the URL dequeued, the response, how
\* the iteration ended, the exceptions caught, and the state it started from.
\* This is what it holds when nothing is saved or discovered.
Skipped(current, resp, final_url, outcome, caught) ==
    [cur |-> current, outcome |-> outcome, final |-> final_url,
     resp |-> resp, text |-> "", fname |-> <<>>, seen0 |-> seen,
     map0 |-> url_to_file, files0 |-> html_files, visited0 |-> visited,
     used0 |-> used_names, added |-> <<>>, anchors |-> <<>>,
     caught |-> caught]

NoLast == Skipped(NoUrl, Failure, NoUrl, "none", {})

----------------------------------------------------------------------------
(* State of the regression detector *)

\* benchmark-baseline/baseline.json: absent; "invalid" when it cannot be
\* read or is not JSON; "dict" when it holds a name-to-score object;
\* "malformed" when it holds other JSON that is true in Python (a non-empty
\* list, an object with a non-numeric value)
Baseline(kind, data) == [kind |-> kind, data |-> data]

\* {}
NoResults == [n \in {} |-> 0]

\* the record of a detector run: its results, exit status and findings
Run(results, status, regs) ==
    [results |-> results, status |-> status, regressions |-> regs]

NoRun == Run(NoResults, -1, {})

\* the detector has not run and has left no file
NoDetection ==
    /\ baseline_json = Baseline("absent", NoResults)
    /\ current_results = NoResults
    /\ regressions = {}
    /\ exit_status = -1
    /\ report_md = NoFile
    /\ prev_run = NoRun

----------------------------------------------------------------------------
(* Initial state: nothing has run, the output directory is empty *)

Fresh ==
    /\ pc = "start"
    /\ strategy = "none"
    /\ queue = <<>>
    /\ seen = {}
    /\ visited = <<>>
    /\ url_to_file = <<>>
    /\ used_names = {}
    /\ html_files = <<>>
    /\ urls_txt = NoFile
    /\ url_map_json = NoFile
    /\ agg_md = NoFile
    /\ exit_code = -1      \* no aggregator run since the crawler last started
    /\ crawl_log = <<>>
    /\ site = <<>>
    /\ requested = <<>>
    /\ enqueued = <<>>
    /\ last = NoLast
    /\ runs = 0

Init ==
    /\ Fresh
    /\ faults = 0
    /\ NoDetection

\* number of local failures among the outcomes drawn for one step
Failed(oks) == Cardinality({i \in 1..Len(oks) : ~oks[i]})

\* the response the site gives for a URL: drawn on the first request, the
\* same on every later one
Answers(u) == IF u \in DOMAIN site THEN {site[u]} ELSE Serve(u)

----------------------------------------------------------------------------
(* crawl.py main: pick the strategy, seed the frontier *)

\* the start of a run for a given configuration of ROOT_URL and EXTRA_SEEDS
StartRunWith(root, extra, HAS_PLAYWRIGHT) ==
    /\ LET seeds == SeedFrontier(root, extra)
       IN  /\ queue' = seeds
           /\ seen' = Range(seeds)
           /\ enqueued' = seeds
    /\ strategy' = IF HAS_PLAYWRIGHT THEN "playwright" ELSE "requests"
    /\ crawl_log' = Append(crawl_log,
                           LogEntry("INFO",
                                    IF HAS_PLAYWRIGHT THEN "USING PLAYWRIGHT"
                                    ELSE "USING REQUESTS", NoUrl))
    /\ visited' = <<>>
    /\ url_to_file' = <<>>
    /\ used_names' = {}
    /\ requested' = <<>>
    /\ last' = NoLast
    /\ runs' = runs + 1
    /\ pc' = "crawl"
    /\ exit_code' = -1
    /\ UNCHANGED <<html_files, urls_txt, url_map_json, agg_md, site, faults>>
    /\ UNCHANGED detector_vars

\* the start of a run as crawl.py is configured
StartRun(HAS_PLAYWRIGHT) == StartRunWith(ROOT_URL, EXTRA_SEEDS, HAS_PLAYWRIGHT)

\* the first run, over an empty output directory
Main(HAS_PLAYWRIGHT) ==
    /\ pc = "start"
    /\ StartRun(HAS_PLAYWRIGHT)

\* a later run of the crawler over the output of the earlier ones
Rerun(HAS_PLAYWRIGHT) ==
    /\ pc = "done"
    /\ runs < MaxRuns
    /\ StartRun(HAS_PLAYWRIGHT)

\* variant: a URL whose fetch failed goes back to the end of the queue
Continue_Retry(current, resp, final_url, outcome, caught, entries) ==
    /\ queue' = IF outcome = "error" THEN Append(Tail(queue), current)
                ELSE Tail(queue)
    /\ crawl_log' = crawl_log
                    \o <<LogEntry("INFO", "FETCH START", current)>> \o entries
    /\ last' = Skipped(current, resp, final_url, outcome, caught)
    /\ UNCHANGED <<seen, visited, url_to_file, used_names, html_files,
                   enqueued>>

\* an iteration that ends at one of the loop's "continue" statements
Continue(current, resp, final_url, outcome, caught, entries) ==
    /\ queue' = Tail(queue)
    /\ crawl_log' = crawl_log
                    \o <<LogEntry("INFO", "FETCH START", current)>> \o entries
    /\ last' = Skipped(current, resp, final_url, outcome, caught)
    /\ UNCHANGED <<seen, visited, url_to_file, used_names, html_files,
                   enqueued>>

\* the rest of an iteration: save the snapshot unless the final URL has a
\* record already, then run the discovery loop over the resolved anchors.
\* (\E over a one-element set names a value computed once.)
SaveAndDiscover(current, resp, final_url, text, anchors, write_ok, caught, entries) ==
    \E has \in {HasRecord(url_to_file, final_url)},
       fname \in {make_filename_for_url(final_url, used_names)},
       abs_urls \in {anchors} :
      \E saved \in {~has /\ write_ok},
         fr \in {Enqueue(abs_urls, [seen |-> seen, queue |-> Tail(queue),
                                    added |-> <<>>])} :
        /\ used_names' = IF has THEN used_names ELSE used_names \cup {fname}
        /\ html_files' = IF saved THEN (fname :> text) @@ html_files
                          ELSE html_files
        /\ url_to_file' = IF saved
                           THEN Append(url_to_file,
                                       [url |-> final_url,
                                        file |-> RelPath(fname)])
                           ELSE url_to_file
        /\ visited' = IF saved THEN Append(visited, final_url) ELSE visited
        /\ seen' = fr.seen
        /\ queue' = fr.queue
        /\ enqueued' = enqueued \o fr.added
        /\ crawl_log' =
              crawl_log
              \o <<LogEntry("INFO", "FETCH START", current)>> \o entries
              \o (IF has THEN <<>>
                  ELSE IF write_ok
                  THEN <<LogEntry("INFO", "FETCH OK", final_url)>>
                  ELSE <<LogEntry("ERROR", "WRITE ERROR", final_url)>>)
              \o [i \in 1..Len(fr.added) |->
                    LogEntry("INFO", "DISCOVERED", fr.added[i])]
        /\ last' = [cur |-> current,
                    outcome |-> IF has THEN "dup"
                                ELSE IF write_ok THEN "saved" ELSE "writeerr",
                    final |-> final_url, resp |-> resp, text |-> text,
                    fname |-> IF has THEN <<>> ELSE fname,
                    seen0 |-> seen, map0 |-> url_to_file,
                    files0 |-> html_files, visited0 |-> visited,
                    used0 |-> used_names, added |-> fr.added,
                    anchors |-> abs_urls,
                    caught |-> caught
                               \cup (IF ~has /\ ~write_ok THEN {"write"}
                                     ELSE {})]

\* one iteration of the while loop of crawl_with_requests
RequestsStep ==
    /\ pc = "crawl"
    /\ strategy = "requests"
    /\ queue # <<>>
    /\ \E current \in {strip_fragment(Head(queue))} :
         \E resp \in Answers(current), write_ok \in BOOLEAN :
           \E final_url \in {strip_fragment(resp.url)} :
                 /\ faults + Failed(<<write_ok>>) <= MaxFaults
                 /\ faults' = faults + Failed(<<write_ok>>)
                 /\ site' = (current :> resp) @@ site
                 /\ requested' = Append(requested, current)
                 /\ IF resp.kind = "error" THEN
                        /\ write_ok
                        /\ Continue(current, resp, NoUrl, "error", {"get"},
                                    <<LogEntry("ERROR", "FETCH ERROR",
                                               current)>>)
                    ELSE IF OutOfScope(final_url) THEN
                        /\ write_ok
                        /\ Continue(current, resp, final_url, "out", {},
                                    <<LogEntry("INFO",
                                               "FETCH SKIP REDIRECTED_OUT",
                                               current)>>)
                    ELSE IF ~is_html_response(resp) THEN
                        /\ write_ok
                        /\ Continue(current, resp, final_url, "nonhtml", {},
                                    <<LogEntry("INFO", "FETCH SKIP NON-HTML",
                                               final_url)>>)
                    ELSE
                        /\ write_ok \/ ~HasRecord(url_to_file, final_url)
                        /\ SaveAndDiscover(current, resp, final_url,
                                           resp.body,
                                           RequestsAnchors(final_url,
                                                           resp.links),
                                           write_ok, {}, <<>>)
    /\ UNCHANGED <<pc, strategy, urls_txt, url_map_json, agg_md, exit_code,
                   runs>>
    /\ UNCHANGED detector_vars

\* one iteration of the while loop of crawl_with_playwright.  page.goto
\* raises on a transport failure or timeout, and may raise when the response
\* is a download instead of a document; it does not raise on an HTTP error
\* status.  The page.close() before the out-of-scope "continue" is not
\* guarded by the code and is taken to succeed.
PlaywrightStep ==
    /\ pc = "crawl"
    /\ strategy = "playwright"
    /\ queue # <<>>
    /\ \E current \in {strip_fragment(Head(queue))} :
         \E resp \in Answers(current),
            goto_ok, read_ok, write_ok, eval_ok, close_ok \in BOOLEAN :
           \E final_url \in {strip_fragment(resp.url)},
              local \in {Failed(<<read_ok, write_ok, eval_ok, close_ok>>)},
              closing \in {IF close_ok THEN {} ELSE {"close"}} :
                 /\ faults + local <= MaxFaults
                 /\ faults' = faults + local
                 /\ site' = (current :> resp) @@ site
                 /\ requested' = Append(requested, current)
                 /\ goto_ok \/ (resp.kind = "ok" /\ ~resp.html)
                 /\ IF resp.kind = "error" \/ ~goto_ok THEN
                        /\ read_ok /\ write_ok /\ eval_ok
                        /\ Continue(current, resp, NoUrl, "error",
                                    {"goto"} \cup closing,
                                    <<LogEntry("ERROR", "FETCH ERROR",
                                               current)>>)
                    ELSE IF OutOfScope(final_url) THEN
                        /\ read_ok /\ write_ok /\ eval_ok /\ close_ok
                        /\ Continue(current, resp, final_url, "out", {},
                                    <<LogEntry("INFO",
                                               "FETCH SKIP REDIRECTED_OUT",
                                               current)>>)
                    ELSE
                        /\ write_ok \/ ~HasRecord(url_to_file, final_url)
                        /\ SaveAndDiscover(
                              current, resp, final_url,
                              IF read_ok THEN resp.body ELSE "",
                              PlaywrightAnchors(final_url,
                                                IF eval_ok THEN resp.links
                                                ELSE <<>>),
                              write_ok,
                              (IF read_ok THEN {} ELSE {"content"})
                                \cup (IF eval_ok THEN {} ELSE {"eval"})
                                \cup closing,
                              IF read_ok THEN <<>>
                              ELSE <<LogEntry("ERROR", "READ ERROR",
                                              final_url)>>)
    /\ UNCHANGED <<pc, strategy, urls_txt, url_map_json, agg_md, exit_code,
                   runs>>
    /\ UNCHANGED detector_vars

\* the loop has ended: crawl_with_playwright closes the context and the
\* browser, an exception of either being dropped, then either strategy
\* runs its "Write outputs"
WriteOutputs ==
    /\ pc = "crawl"
    /\ queue = <<>>
    /\ \E urls_ok, map_ok, context_ok, browser_ok \in BOOLEAN :
         /\ strategy = "playwright" \/ (context_ok /\ browser_ok)
         /\ faults + Failed(<<urls_ok, map_ok, context_ok, browser_ok>>)
              <= MaxFaults
         /\ faults' = faults
                        + Failed(<<urls_ok, map_ok, context_ok, browser_ok>>)
         /\ urls_txt' = IF urls_ok THEN File(SortUrls(visited)) ELSE urls_txt
         /\ url_map_json' = IF map_ok THEN File(url_to_file)
                             ELSE url_map_json
         /\ crawl_log' =
               crawl_log
               \o (IF urls_ok THEN <<>>
                   ELSE <<LogEntry("ERROR", "WRITE ERROR urls.txt", NoUrl)>>)
               \o (IF map_ok THEN <<>>
                   ELSE <<LogEntry("ERROR", "WRITE ERROR url_map.json",
                                   NoUrl)>>)
    /\ pc' = "done"
    /\ UNCHANGED <<strategy, queue, seen, visited, url_to_file, used_names,
                   html_files, agg_md, exit_code, site, requested, enqueued,
                   last, runs>>
    /\ UNCHANGED detector_vars

----------------------------------------------------------------------------
(* aggregate_md.py *)

\* variant: the items are taken in the order of the file
SortItems_FileOrder(m) == m

\* sorted(url_map.items(), key=lambda kv: kv[0])
RECURSIVE InsertItem(_, _)
InsertItem(kv, s) ==
    IF s = <<>> THEN <<kv>>
    ELSE IF UrlLess(kv.url, Head(s).url) THEN <<kv>> \o s
    ELSE <<Head(s)>> \o InsertItem(kv, Tail(s))

RECURSIVE SortItems(_)
SortItems(m) ==
    IF m = <<>> THEN <<>>
    ELSE CHOOSE out \in {InsertItem(Last(m), rest) :
                            rest \in {SortItems(Front(m))}} : TRUE

\* os.path.join(OUT_DIR, relpath) names the file html/<fname>
SnapshotName(relpath) == SubSeq(relpath, 3, Len(relpath))

\* the sections written for the entries whose snapshot file exists; a
\* section stands for its title line, source line and converted body
RECURSIVE Sections(_, _)
Sections(items, files) ==
    IF items = <<>> THEN <<>>
    ELSE LET fname == SnapshotName(Head(items).file)
         IN  (IF fname \in DOMAIN files
              THEN <<[url |-> Head(items).url, html |-> files[fname]]>>
              ELSE <<>>)
             \o Sections(Tail(items), files)

\* variant: the URL map is taken to be there without looking
PathExists_Always(f) == TRUE

\* os.path.exists
PathExists(f) == f.exists

\* main of aggregate_md.py, run when no crawl is in progress
Aggregate(HAS_MD) ==
    /\ pc \in {"start", "done"}
    /\ IF ~PathExists(url_map_json) THEN
          /\ exit_code' = 1
          /\ agg_md' = agg_md
       ELSE
          LET items == SortItems(url_map_json.data)
              sections == Sections(items, html_files)
          IN  IF sections # <<>> /\ ~HAS_MD THEN
                 /\ exit_code' = 1
                 /\ agg_md' = File(<<>>)
              ELSE
                 /\ exit_code' = 0
                 /\ agg_md' = File(sections)
    /\ UNCHANGED <<pc, strategy, queue, seen, visited, url_to_file,
                   used_names, html_files, urls_txt, url_map_json, crawl_log,
                   site, requested, enqueued, last, runs, faults>>
    /\ UNCHANGED detector_vars

----------------------------------------------------------------------------

Next ==
    \/ \E HAS_PLAYWRIGHT \in BOOLEAN : Main(HAS_PLAYWRIGHT)
    \/ RequestsStep
    \/ PlaywrightStep
    \/ WriteOutputs
    \/ \E HAS_MD \in BOOLEAN : Aggregate(HAS_MD)

Spec == Init /\ [][Next]_vars

\* The crawl loop is sequential code: a started run keeps taking its next
\* step, every fetch returning within its timeout.
FairSpec ==
    /\ Spec
    /\ WF_vars(RequestsStep)
    /\ WF_vars(PlaywrightStep)
    /\ WF_vars(WriteOutputs)

\* Reruns of the crawler against the same site, in an environment without
\* local failures
InitStatic ==
    /\ Fresh
    /\ faults = MaxFaults
    /\ NoDetection

NextStatic ==
    \/ Next
    \/ \E HAS_PLAYWRIGHT \in BOOLEAN : Rerun(HAS_PLAYWRIGHT)

SpecStatic == InitStatic /\ [][NextStatic]_vars

\* Seeding under other configurations: the length of EXTRA_SEEDS
MaxSeeds == 2

\* values ROOT_URL may be given
Roots == {ROOT_URL, [ROOT_URL EXCEPT !.fragment = "top"], uLearn}

\* entries EXTRA_SEEDS may be given: paths, a path with a fragment, a
\* relative path, the empty string, a URL on another host
SeedPaths ==
    {Ref(<<"/">>, <<>>, ""), hLearn,
     Ref(<<"/", "clockify", "/", "learn", "/">>, <<>>, "intro"),
     Ref(<<"/", "clockify", "/", "build", "/">>, <<>>, ""),
     Ref(<<"/", "clockify", "/", "publish", "/">>, <<>>, ""),
     hAA, hRel, hEmpty, uOther}

SeedLists == UNION {[1..n -> SeedPaths] : n \in 0..MaxSeeds}

\* the first run of a crawler configured with any of these
MainWith ==
    /\ pc = "start"
    /\ \E root \in Roots, extra \in SeedLists, HAS_PLAYWRIGHT \in BOOLEAN :
         StartRunWith(root, extra, HAS_PLAYWRIGHT)

NextSeeds == MainWith

SpecSeeds == Init /\ [][NextSeeds]_vars

\* The aggregate document an earlier aggregation left in the output directory
StaleDoc == File(<<[url |-> uRoot, html |-> "root"]>>)

\* An output directory from which url_map.json and the snapshots are gone,
\* while the aggregate document (AGG_MD) may still be there
InitStale ==
    /\ pc = "start"
    /\ strategy = "none"
    /\ queue = <<>>
    /\ seen = {}
    /\ visited = <<>>
    /\ url_to_file = <<>>
    /\ used_names = {}
    /\ html_files = <<>>
    /\ urls_txt = NoFile
    /\ url_map_json = NoFile
    /\ agg_md \in {NoFile, StaleDoc}
    /\ exit_code = -1
    /\ crawl_log = <<>>
    /\ site = <<>>
    /\ requested = <<>>
    /\ enqueued = <<>>
    /\ last = NoLast
    /\ runs = 0
    /\ faults = 0
    /\ NoDetection

SpecStale == InitStale /\ [][Next]_vars


----------------------------------------------------------------------------
(* tools/performance-regression-detector.py *)

\* threshold_percent = 10.0
threshold_percent == 10

\* benchmark names the result files may hold
Names == {"Mw.handle", "Db.query"}

\* scores (ops/sec) the result files may hold; on whole numbers of this
\* size the float arithmetic of detect_regressions is exact
Scores == {0, 89, 90, 100}

\* what parsing the benchmark files can give: a score for some of the names
Results == UNION {[D -> Scores] : D \in SUBSET Names}

\* what baseline.json can hold before the detector first runs
Baselines ==
    {Baseline("absent", NoResults), Baseline("invalid", NoResults),
     Baseline("malformed", NoResults)}
    \cup {Baseline("dict", r) : r \in Results}

\* json.load of the baseline, {} when it is absent or cannot be decoded
load_baseline_results(f) == IF f.kind = "dict" THEN f.data ELSE NoResults

\* json.dump of the results; floats survive dump and load unchanged
save_baseline_results(results) == Baseline("dict", results)

\* variant: a drop of exactly the threshold counts as a regression
IsRegression_AtThreshold(current_score, baseline_score) ==
    /\ baseline_score > 0
    /\ (current_score - baseline_score) * 100
         <= (0 - threshold_percent) * baseline_score

\* baseline_score > 0 and
\* ((current_score - baseline_score) / baseline_score) * 100
\*    < -threshold_percent, multiplied through by the positive baseline
IsRegression(current_score, baseline_score) ==
    /\ baseline_score > 0
    /\ (current_score - baseline_score) * 100
         < (0 - threshold_percent) * baseline_score

\* the findings, one per baseline entry that regressed
detect_regressions(current, baseline) ==
    {[name |-> n, current_score |-> current[n], baseline_score |-> baseline[n]] :
       n \in {m \in DOMAIN baseline :
                 /\ m \in DOMAIN current
                 /\ IsRegression(current[m], baseline[m])}}

\* one run of main over the given parsed results
Detect(results) ==
    /\ current_results' = results
    /\ prev_run' = Run(current_results, exit_status, regressions)
    /\ IF results = NoResults THEN
          \* sys.exit(1): nothing to compare
          /\ exit_status' = 1
          /\ regressions' = {}
          /\ UNCHANGED <<baseline_json, report_md>>
       ELSE IF baseline_json.kind = "malformed" THEN
          \* detect_regressions raises, the run dies with a traceback
          /\ exit_status' = 1
          /\ regressions' = {}
          /\ UNCHANGED <<baseline_json, report_md>>
       ELSE IF load_baseline_results(baseline_json) = NoResults THEN
          /\ baseline_json' = save_baseline_results(results)
          /\ exit_status' = 0
          /\ regressions' = {}
          /\ UNCHANGED report_md
       ELSE
          \E found \in {detect_regressions(
                           results, load_baseline_results(baseline_json))} :
            /\ regressions' = found
            /\ report_md' = File(found)
            /\ IF found # {} THEN
                  /\ exit_status' = 1
                  /\ UNCHANGED baseline_json
               ELSE
                  /\ exit_status' = 0
                  /\ baseline_json' = save_baseline_results(results)
    /\ UNCHANGED <<pc, strategy, queue, seen, visited, url_to_file,
                   used_names, html_files, urls_txt, url_map_json, agg_md,
                   exit_code, crawl_log, site, requested, enqueued, last,
                   runs, faults>>

\* the detector is run again and again, on whatever the benchmarks gave
DetectorRun == \E results \in Results : Detect(results)

InitDetector ==
    /\ Fresh
    /\ faults = 0
    /\ baseline_json \in Baselines
    /\ current_results = NoResults
    /\ regressions = {}
    /\ exit_status = -1
    /\ report_md = NoFile
    /\ prev_run = NoRun

NextDetector == DetectorRun

SpecDetector == InitDetector /\ [][NextDetector]_vars

----------------------------------------------------------------------------
(* Properties *)

\* the final URL of the latest response
LastFinal == strip_fragment(last.resp.url)

\* the latest iteration got a response (no transport failure)
Answered == last.outcome # "none" /\ last.resp.kind = "ok"

Recorded(m, u) == u \in Range(Keys(m))

Count(s, x) == Cardinality({i \in 1..Len(s) : s[i] = x})

\* C1: every URL in the frontier queue is in the seen set, and no URL is
\* appended to the queue more than once in a run.
C1_QueueInSeenEnqueuedOnce ==
    /\ Range(queue) \subseteq seen
    /\ NoDup(enqueued)

\* a page has linked to a URL that was already seen, with more still queued
C1_Witness ==
    /\ queue # <<>>
    /\ \E i \in 1..Len(last.anchors) :
         last.anchors[i] \in last.seen0 /\ Eligible(last.anchors[i])

\* C2: first write wins.  The map never holds two records for one final
\* URL; a fetch whose final URL has a record already changes neither the
\* map nor any snapshot file; and a record, once made, keeps its file name
\* and its file keeps its content for the rest of the run.
C2_FirstWriteWins ==
    /\ [](NoDup(Keys(url_to_file)))
    /\ [](Answered /\ Recorded(last.map0, LastFinal)
            => url_to_file = last.map0 /\ html_files = last.files0)
    /\ [][pc = "crawl" =>
            \A i \in 1..Len(url_to_file) :
               /\ Len(url_to_file') >= i
               /\ url_to_file'[i] = url_to_file[i]
               /\ html_files'[SnapshotName(url_to_file[i].file)]
                    = html_files[SnapshotName(url_to_file[i].file)]]_vars

\* a second fetch ended on a recorded final URL with different content
C2_Witness ==
    /\ Answered
    /\ Recorded(last.map0, LastFinal)
    /\ last.resp.body
         # html_files[SnapshotName(FileOf(url_to_file, LastFinal))]

\* C3: file names never collide.  Every name make_filename_for_url returns
\* is new to used_names, so the names returned in a run are pairwise
\* distinct and the URL-to-file map is injective.
C3_FileNamesDistinct ==
    /\ \A i, j \in 1..Len(url_to_file) :
         i # j => url_to_file[i].file # url_to_file[j].file
    /\ last.fname # <<>> =>
         last.fname \notin last.used0 /\ last.fname \in used_names
    /\ Cardinality(used_names)
         = Len(SelectSeq(crawl_log,
                         LAMBDA e : e.event \in {"FETCH OK", "WRITE ERROR"}))

\* a URL whose slug and whose slug_2 were both taken got slug_3
C3_Witness ==
    \E i \in 1..Len(url_to_file) :
       url_to_file[i].file
         = RelPath(Slug(url_to_file[i].url) \o <<"_", "3", ".html">>)

\* a link of the latest page, resolved against the page's final URL and
\* stripped of its fragment
Resolved(h) == strip_fragment(urljoin(LastFinal, h))

\* the scope filter as the specification words it
InPolicy(u) ==
    /\ u.scheme \in {"http", "https"}
    /\ u.netloc = ALLOWED_HOST
    /\ ~\E ext \in BLOCKED_EXTENSIONS : EndsWith(LowerSeq(u.path), <<ext>>)

\* the latest iteration read the anchors of its page
Discovering ==
    /\ Answered
    /\ last.outcome \in {"saved", "dup", "writeerr"}
    /\ "eval" \notin last.caught

\* the URLs the discovery loop has queued in this run
Discovered ==
    {e.url : e \in {x \in Range(crawl_log) : x.event = "DISCOVERED"}}

NothingKept ==
    /\ url_to_file = last.map0
    /\ html_files = last.files0
    /\ visited = last.visited0
    /\ used_names = last.used0
    /\ seen = last.seen0
    /\ last.added = <<>>

C6_NonHtmlDropped ==
    (Answered /\ ~(last.resp.status = 200 /\ last.resp.html)) => NothingKept

\* the strategy the first run of the history used
FirstStrategy ==
    IF crawl_log[1].event = "USING PLAYWRIGHT" THEN "playwright"
    ELSE "requests"

\* C7 as claimed: a run of one strategy over the site that a run of the
\* other strategy has crawled ends with the same URL-to-file map and the
\* same visited list as that run wrote out.
C7_StrategiesAgree ==
    (/\ runs = 2
     /\ pc = "crawl"
     /\ queue = <<>>
     /\ strategy # FirstStrategy
     /\ url_map_json.exists
     /\ urls_txt.exists)
    => /\ url_to_file = url_map_json.data
       /\ SortUrls(visited) = urls_txt.data

Errored ==
    {e.url : e \in {x \in Range(crawl_log) : x.event = "FETCH ERROR"}}

\* C9: no URL is requested twice in a run; a URL whose fetch failed is
\* not in the queue afterwards and has been queued and requested once;
\* and the failing iteration just moves on to the rest of the queue.
C9_FailedFetchNotRetried ==
    /\ [](NoDup(requested))
    /\ [](\A u \in Errored :
            /\ u \notin Range(queue)
            /\ Count(requested, u) = 1
            /\ Count(enqueued, u) = 1)
    /\ [][(last' # last /\ last'.outcome = "error")
           => pc' = "crawl" /\ queue' = Tail(queue)]_vars

\* a page fetched later links to a URL whose fetch had failed
C9_Witness ==
    /\ Discovering
    /\ \E u \in Errored : u \in Range(last.anchors) /\ u # last.cur

\* the source URLs of the sections of the aggregate document
SectionUrls == [i \in 1..Len(agg_md.data) |-> agg_md.data[i].url]

\* C10: the sections of the aggregate document are in ascending order of
\* source URL, one per map entry that has a snapshot file; and a second
\* aggregation over the same map and files writes the same document.
C10_SectionsAscending ==
    /\ [](agg_md.exists =>
            \A i, j \in 1..Len(agg_md.data) :
               i < j => LexLess(urlunsplit(agg_md.data[i].url),
                                urlunsplit(agg_md.data[j].url)))
    /\ [](agg_md.exists /\ exit_code = 0 =>
            Range(SectionUrls)
              = {kv.url : kv \in {x \in Range(url_map_json.data) :
                                   SnapshotName(x.file)
                                     \in DOMAIN html_files}})
    /\ [][(pc = "done" /\ exit_code = 0 /\ exit_code' = 0)
           => agg_md' = agg_md]_vars

\* a document of three or more sections from a map that is not in URL order
C10_Witness ==
    /\ agg_md.exists
    /\ Len(agg_md.data) >= 3
    /\ SectionUrls # Keys(url_map_json.data)

\* C11: when the aggregator is invoked and url_map.json does not exist, it
\* exits with status 1 and AGG_MD is left exactly as it was (not created,
\* not truncated, not written); and while the map is missing no step of
\* the system changes AGG_MD or ends an aggregation with status 0.
C11_AbortsBeforeTouchingOutput ==
    [][/\ ~url_map_json.exists => agg_md' = agg_md /\ exit_code' # 0
       /\ (~url_map_json.exists /\ \E HAS_MD \in BOOLEAN : Aggregate(HAS_MD))
            => exit_code' = 1 /\ agg_md' = agg_md]_vars

\* the aggregator has aborted for want of the map, over an AGG_MD that was
\* there before and still holds what it held
C11_Witness ==
    /\ ~url_map_json.exists
    /\ exit_code = 1
    /\ agg_md = StaleDoc

\* number of ERROR entries a step appends to the crawl log
ErrorsLogged ==
    Cardinality({i \in (Len(crawl_log) + 1)..Len(crawl_log') :
                   crawl_log'[i].level = "ERROR"})

\* C12: every exception caught during a crawl run produces a log entry:
\* an iteration of the crawl loop appends at least one ERROR entry per
\* exception it caught (page.goto or session.get, page.content, the anchor
\* extraction, the snapshot write, page.close), and the end of the run
\* appends one per failure of an output-file write or of closing the
\* context or the browser.
C12_EveryCaughtExceptionLogged ==
    [][/\ (pc = "crawl" /\ requested' # requested)
            => ErrorsLogged >= Cardinality(last'.caught)
       /\ (pc = "crawl" /\ pc' = "done")
            => ErrorsLogged >= faults' - faults]_vars

\* C13: after initialization, for any root URL and list of extra seed
\* paths, every URL in the frontier queue is canonical (fragment-free, on
\* the allowed host) and occurs in the queue at most once.
C13_SeedsQueuedOnce ==
    (pc = "crawl" /\ requested = <<>>)
        => /\ \A i \in 1..Len(queue) : /\ queue[i].fragment = ""
                                        /\ queue[i].netloc = ALLOWED_HOST
           /\ NoDup(queue)

\* the URLs named by the log entries of the given events
Logged(events) ==
    {e.url : e \in {x \in Range(crawl_log) : x.event \in events}}

Ascending(s) == \A i \in 1..(Len(s) - 1) : UrlLess(s[i], s[i + 1])

\* the visited list is the key list of the map, without repeats, and holds
\* only fragment-free URLs on the allowed host
VisitedIsMapKeys ==
    /\ visited = Keys(url_to_file)
    /\ NoDup(visited)
    /\ \A i \in 1..Len(visited) : /\ visited[i].fragment = ""
                                  /\ visited[i].netloc = ALLOWED_HOST

\* urls.txt holds the visited URLs, each once, in ascending order
UrlsFileHoldsVisited ==
    /\ urls_txt.exists
    /\ Range(urls_txt.data) = Range(visited)
    /\ Len(urls_txt.data) = Len(visited)
    /\ Ascending(urls_txt.data)

\* url_map.json holds the key set of the map
MapFileHoldsKeys ==
    /\ url_map_json.exists
    /\ Range(Keys(url_map_json.data)) = Range(visited)

\* C14 as claimed: in every state of a crawl run visited is the key list of
\* url_to_file, each URL once, fragment-free and on the allowed host; a URL
\* whose fetch failed, was skipped or whose snapshot write failed is in
\* neither; and once the run has ended urls.txt holds the visited URLs in
\* sorted order and url_map.json holds the same key set.
C14_VisitedMapAndFilesAgree ==
    /\ VisitedIsMapKeys
    /\ \A u \in Logged({"FETCH ERROR", "FETCH SKIP REDIRECTED_OUT",
                         "FETCH SKIP NON-HTML", "WRITE ERROR"}) :
          u \notin Range(visited) /\ ~HasRecord(url_to_file, u)
    /\ pc = "done" => UrlsFileHoldsVisited /\ MapFileHoldsKeys

\* C14, amended: in every state of a crawl run visited is the key list of
\* url_to_file, each URL once, fragment-free and on the allowed host; an
\* iteration whose fetch failed, that was skipped or whose snapshot write
\* failed adds nothing to either; and once the run has ended urls.txt
\* holds the visited URLs in sorted order unless writing it failed, and
\* url_map.json holds the same key set unless writing it failed.
C14_VisitedIsMapKeysFilesUnlessWriteFailed ==
    /\ VisitedIsMapKeys
    /\ last.outcome \in {"error", "out", "nonhtml", "writeerr"}
         => visited = last.visited0 /\ url_to_file = last.map0
    /\ pc = "done"
         => /\ Logged({"WRITE ERROR urls.txt"}) = {} => UrlsFileHoldsVisited
            /\ Logged({"WRITE ERROR url_map.json"}) = {} => MapFileHoldsKeys

\* a run has ended and written both files, one of its snapshot writes and
\* one of its fetches had failed, and urls.txt is not in the order of the
\* visits
C14_Witness ==
    /\ pc = "done"
    /\ urls_txt.exists /\ url_map_json.exists
    /\ Logged({"WRITE ERROR"}) # {}
    /\ Logged({"FETCH ERROR"}) # {}
    /\ Len(visited) >= 3
    /\ urls_txt.data # visited

\* a baseline the detector compares against: a non-empty name-to-score object
Usable(f) == f.kind = "dict" /\ f.data # NoResults

\* the benchmarks present in both result sets whose score dropped by
\* strictly more than threshold_percent of a positive baseline score
Dropped(current, baseline) ==
    {n \in DOMAIN current \cap DOMAIN baseline :
       /\ baseline[n] > 0
       /\ (baseline[n] - current[n]) * 100 > threshold_percent * baseline[n]}

RegressedNames(regs) == {r.name : r \in regs}

\* C15: across repeated runs of the regression detector, the baseline
\* file changes only in a run that found no usable baseline or detected no
\* regression, and then to the current results; a run over a usable
\* baseline reports exactly the benchmarks that dropped by strictly more
\* than the threshold; a run that reports a regression exits with status 1
\* and leaves the baseline as it was; and a run on the same current results
\* as a run that reported regressions reports the same ones again, with
\* status 1.
C15_BaselineKeptOnRegression ==
    [][/\ baseline_json' # baseline_json
            => /\ ~Usable(baseline_json) \/ regressions' = {}
               /\ baseline_json' = Baseline("dict", current_results')
       /\ (Usable(baseline_json) /\ current_results' # NoResults)
            => RegressedNames(regressions')
                 = Dropped(current_results', baseline_json.data)
       /\ regressions' # {}
            => exit_status' = 1 /\ baseline_json' = baseline_json
       /\ (regressions # {} /\ current_results' = current_results)
            => regressions' = regressions /\ exit_status' = 1]_vars

\* two runs in a row on the same results have both reported a regression
\* and exited with status 1, while another benchmark of those results sits
\* at exactly the threshold below its baseline and is not reported
C15_Witness ==
    /\ exit_status = 1
    /\ regressions # {}
    /\ prev_run = Run(current_results, 1, regressions)
    /\ Usable(baseline_json)
    /\ \E n \in DOMAIN current_results \cap DOMAIN baseline_json.data :
         /\ baseline_json.data[n] > 0
         /\ (baseline_json.data[n] - current_results[n]) * 100
              = threshold_percent * baseline_json.data[n]
         /\ n \notin RegressedNames(regressions)

====
